---- MODULE Spec2Model ----
(***************************************************************************)
(* Signature Aggregator (pyfrost/network_http/sa.py): post_request and the *)
(* SA coordinator's request_nonces / request_signature, as asyncio         *)
(* coroutines.  Code between two awaits is one atomic action; the peer     *)
(* calls of a batch complete one by one in any order.                      *)
(***************************************************************************)
EXTENDS Integers, Sequences, FiniteSets, TLC

\* ------------------------------------------------------------------ bounds
\* longest party / sign_party list of an invocation
MaxParty == 2
\* the same, when two invocations share one coordinator
MaxPartyConc == 1

\* ------------------------------------------------------- python values
\* Python's None for a dict-valued place, and for a str-valued place
None == [none |-> TRUE]
NoneStr == "None"

\* truthiness of a str-or-None value (`if _hash`, `if _aggregated_public_nonce`)
Truthy(s) == s \notin {"", NoneStr}

\* an insertion-ordered dict: the sequence of its items
EmptyDict == [items |-> <<>>]
DictKeys(d) == [n \in 1..Len(d.items) |-> d.items[n].key]
DictValues(d) == [n \in 1..Len(d.items) |-> d.items[n].value]

\* mutant of DictSet: every assignment adds an item
DictSet_append(d, k, v) ==
  [items |-> Append(d.items, [key |-> k, value |-> v])]

\* d[k] = v : an existing key keeps its position, a new key goes last
DictSet(d, k, v) ==
  IF \E n \in 1..Len(d.items) : d.items[n].key = k
  THEN [items |-> [n \in 1..Len(d.items) |->
                     IF d.items[n].key = k
                     THEN [key |-> k, value |-> v] ELSE d.items[n]]]
  ELSE [items |-> Append(d.items, [key |-> k, value |-> v])]

RECURSIVE dict_zip_from(_, _, _)
dict_zip_from(keys, vals, acc) ==
  IF keys = <<>> \/ vals = <<>> THEN acc
  ELSE dict_zip_from(Tail(keys), Tail(vals),
                     DictSet(acc, Head(keys), Head(vals)))

\* dict(zip(keys, vals))
dict_zip(keys, vals) == dict_zip_from(keys, vals, EmptyDict)

\* ------------------------------------------------------------ environment
NodeIds == {1, 2, 3, 4, 5}

\* NodesInfo: the ids the directory knows, with their addresses
Directory == [id \in {1, 2, 3} |-> [host |-> id, port |-> 5000 + id]]

\* self.nodes_info.lookup_node(node_id): fails if the id is unknown
lookup_known(nodes_info, node_id) == node_id \in DOMAIN nodes_info

\* the caller's arguments of request_signature
DkgKey == [public_key |-> "PK", party |-> {1, 2, 3, 4}]
NoncesList == "nonces_list"
SaData == "sa_data"

Hashes == {"", "h1", "h2"}
NonceCodes == {"", "n1", "n2"}

\* a peer's JSON answer to /v1/sign
SignBodies ==
  [status : {"SUCCESSFUL", "MALICIOUS"}, hash : Hashes,
   signature_data : [aggregated_public_nonce : NonceCodes]]
SignBodiesConc ==
  [status : {"SUCCESSFUL"}, hash : {"h1"},
   signature_data : [aggregated_public_nonce : {"n1", "n2"}]]

\* a peer's JSON answer to /v1/generate-nonces
NonceBodies == [status : {"SUCCESSFUL"}, nonces : {"c1", "c2"}]
NonceBodiesConc == [status : {"SUCCESSFUL"}, nonces : {"c1"}]

\* ---------------------------------------------------------- post_request
TimeoutSentinel ==
  [status |-> "TIMEOUT", error |-> "Communication timed out"]
ErrorSentinel(e) ==
  [status |-> "ERROR",
   error |-> IF e = "ContentTypeError"
             THEN "An exception occurred: ContentTypeError"
             ELSE "An exception occurred"]

Returned(v) == [kind |-> "value", value |-> v]
Raised(e) == [kind |-> "exception", exc |-> e]
Pending == [kind |-> "pending"]

\* What the network does to one POST.  phase "connect": inside
\* session.post(...), before the response object exists; phase "body":
\* inside response.json().
NetEvents(bodies) ==
  {[phase |-> "connect", event |-> "TimeoutError", body |-> None],
   [phase |-> "connect", event |-> "ClientConnectorError", body |-> None],
   [phase |-> "body", event |-> "TimeoutError", body |-> None],
   [phase |-> "body", event |-> "ContentTypeError", body |-> None]}
  \cup {[phase |-> "body", event |-> "json", body |-> b] : b \in bodies}

\* the fewer events of a run with two invocations
NetEventsConc(bodies) ==
  {net \in NetEvents(bodies) : net.event \in {"TimeoutError", "json"}}

\* post_request(url, data, timeout): only response.json() is inside the try
post_request(net) ==
  IF net.phase = "connect" THEN Raised(net.event)
  ELSE IF net.event = "json" THEN Returned(net.body)
  ELSE IF net.event = "TimeoutError" THEN Returned(TimeoutSentinel)
  ELSE Returned(ErrorSentinel(net.event))

\* --------------------------------------------------------- CryptoProvider
\* the aggregated public nonce the signers' commitments give for a digest
NonceCodeFor(message) == IF message = "h1" THEN "n1" ELSE "n2"

\* pyfrost.frost.pub_to_code / code_to_pub: a point and its compact code
code_to_pub(code) == [point |-> code]
pub_to_code(pub) == pub.point

\* pyfrost.aggregate_nonce(message, nonces_list, group_public_key).  With
\* an undefined digest the provider either raises or computes some nonce.
aggregate_nonce(message, nonces_list, public_key) ==
  IF Truthy(message)
  THEN {Returned(code_to_pub(NonceCodeFor(message)))}
  ELSE {Raised("CryptoError")}
       \cup {Returned(code_to_pub(c)) : c \in NonceCodes \ {""}}

\* bytes and its hex string
Bytes(m) == [bytes |-> m]
hex(b) == [hex |-> b.bytes]

\* pyfrost.aggregate_signatures(message, shares, aggregated_nonce, key)
aggregate_signatures(message, shares, nonce, public_key) ==
  LET sign == [message_hash |-> Bytes(message), nonce |-> nonce,
               shares |-> shares, public_key |-> public_key]
  IN IF Truthy(message) THEN {Returned(sign)}
     ELSE {Raised("CryptoError"), Returned(sign)}

\* pyfrost.frost.verify_group_signature(aggregated_sign)
verify_group_signature(aggregated_sign) == BOOLEAN

\* ------------------------------------------------------------------ state
\* SA.__init__ defaults and request_nonces' default argument
DefaultTimeout == 200
DefaultNumberOfNonces == 10

Invocations == {1, 2}

VARIABLES
  self,        \* the SA object: nodes_info, default_timeout
  inv,         \* per invocation: its position, arguments and locals
  uuid_count,  \* how many uuid4 values the process has drawn
  env          \* the run's bounds: usable invocations, list length, network

vars == <<self, inv, uuid_count, env>>

IdleInv ==
  [pc |-> "idle", op |-> "none", party |-> <<>>, request_id |-> 0,
   request_data |-> None, request_tasks |-> <<>>, signatures |-> None,
   str_message |-> NoneStr, sample_result |-> <<>>, signs |-> <<>>,
   aggregated_public_nonces |-> <<>>, aggregated_sign |-> None,
   ret |-> None, exc |-> "", log |-> <<>>]

InitSelf == [nodes_info |-> Directory, default_timeout |-> DefaultTimeout]

Init ==
  /\ self = InitSelf
  /\ inv = [i \in Invocations |-> IdleInv]
  /\ uuid_count = 0
  /\ env = [slots |-> {1}, max_party |-> MaxParty,
            net |-> "all"]

InitConc ==
  /\ self = InitSelf
  /\ inv = [i \in Invocations |-> IdleInv]
  /\ uuid_count = 0
  /\ env = [slots |-> Invocations, max_party |-> MaxPartyConc,
            net |-> "few"]

InitLive ==
  /\ self = InitSelf
  /\ inv = [i \in Invocations |-> IdleInv]
  /\ uuid_count = 0
  /\ env = [slots |-> {1}, max_party |-> MaxParty,
            net |-> "few"]

\* the lists of node ids of length at most n
Parties(n) == UNION {[1..m -> NodeIds] : m \in 0..n}

\* --------------------------------------------- the synchronous prologue
\* mutant of uuid4: one id for every invocation
uuid4_fixed(count) == 1

\* uuid.uuid4(): a value never drawn before
uuid4(count) == count + 1

Url(node, call_method) ==
  [host |-> node.host, port |-> node.port, path |-> call_method]

\* index of the first id of party that lookup_node fails on, 0 if none
FirstUnknown(nodes_info, party) ==
  LET bad == {k \in 1..Len(party) : ~lookup_known(nodes_info, party[k])}
  IN IF bad = {} THEN 0 ELSE CHOOSE k \in bad : \A j \in bad : k <= j

LookupLog(party, upto) ==
  [k \in 1..upto |-> [fn |-> "lookup_node", node_id |-> party[k]]]

\* [post_request(url, request_data, self.default_timeout) for url in urls]
RequestTasks(nodes_info, party, call_method, request_data, timeout) ==
  [k \in 1..Len(party) |->
     [url |-> Url(nodes_info[party[k]], call_method),
      data |-> request_data, timeout |-> timeout, result |-> Pending]]

PostLog(tasks) ==
  [k \in 1..Len(tasks) |->
     [fn |-> "post_request", url |-> tasks[k].url, data |-> tasks[k].data,
      timeout |-> tasks[k].timeout]]

\* mutant of FanOut: each member is looked up and called in turn
FanOut_lazy(v, call_method, request_data, log) ==
  LET bad == FirstUnknown(self.nodes_info, v.party)
      upto == IF bad = 0 THEN Len(v.party) ELSE bad - 1
      tasks == RequestTasks(self.nodes_info, SubSeq(v.party, 1, upto),
                            call_method, request_data, self.default_timeout)
  IN IF bad # 0
     THEN [v EXCEPT !.pc = "raised", !.exc = "LookupError",
                    !.log = log \o LookupLog(v.party, upto) \o PostLog(tasks)
                                \o <<[fn |-> "lookup_node",
                                      node_id |-> v.party[bad]]>>]
     ELSE [v EXCEPT !.pc = "awaiting", !.request_tasks = tasks,
                    !.log = log \o LookupLog(v.party, upto) \o PostLog(tasks)]

\* the list comprehensions before the await: every lookup, then every call
FanOut(v, call_method, request_data, log) ==
  LET bad == FirstUnknown(self.nodes_info, v.party)
      tasks == RequestTasks(self.nodes_info, v.party, call_method,
                            request_data, self.default_timeout)
  IN IF bad # 0
     THEN [v EXCEPT !.pc = "raised", !.exc = "LookupError",
                    !.log = log \o LookupLog(v.party, bad)]
     ELSE [v EXCEPT !.pc = "awaiting", !.request_tasks = tasks,
                    !.log = log \o LookupLog(v.party, Len(v.party))
                                \o PostLog(tasks)]

\* request_nonces up to `await asyncio.gather(...)`
RequestNonces(i) ==
  /\ i \in env.slots
  /\ inv[i].pc = "idle"
  /\ \E party \in Parties(env.max_party) :
       LET request_data == [number_of_nonces |-> DefaultNumberOfNonces]
           v == [inv[i] EXCEPT !.op = "request_nonces", !.party = party,
                               !.request_data = request_data]
       IN inv' = [inv EXCEPT ![i] =
                    FanOut(v, "/v1/generate-nonces", request_data, <<>>)]
  /\ UNCHANGED <<self, uuid_count, env>>

\* mutant of GuardPasses: one authorised member is enough
GuardPasses_any(sign_party, dkg_key) ==
  \E k \in 1..Len(sign_party) : sign_party[k] \in dkg_key.party

\* the subset guard of request_signature
GuardPasses(sign_party, dkg_key) ==
  {sign_party[k] : k \in 1..Len(sign_party)} \subseteq dkg_key.party

\* request_signature up to `await asyncio.gather(...)`
RequestSignature(i) ==
  /\ i \in env.slots
  /\ inv[i].pc = "idle"
  /\ \E sign_party \in Parties(env.max_party) :
       LET v == [inv[i] EXCEPT !.op = "request_signature",
                               !.party = sign_party]
           request_id == uuid4(uuid_count)
           request_data ==
             [request_id |-> request_id,
              dkg_public_key |-> DkgKey.public_key,
              nonces_list |-> NoncesList, data |-> SaData]
           w == [v EXCEPT !.request_id = request_id,
                          !.request_data = request_data]
       IN IF ~GuardPasses(sign_party, DkgKey)
          THEN /\ inv' = [inv EXCEPT ![i] =
                           [v EXCEPT !.pc = "returned",
                                     !.ret = [result |-> "FAILED",
                                              signatures |-> None]]]
               /\ UNCHANGED uuid_count
          ELSE /\ inv' = [inv EXCEPT ![i] =
                           FanOut(w, "/v1/sign", request_data,
                                  <<[fn |-> "uuid4", value |-> request_id]>>)]
               /\ uuid_count' = request_id
  /\ UNCHANGED <<self, env>>

\* ------------------------------------------------------ the batch of calls
\* what the network may do to a call of the endpoint of op
NetFor(op) ==
  IF env.net = "all"
  THEN NetEvents(IF op = "request_signature" THEN SignBodies
                 ELSE NonceBodies)
  ELSE NetEventsConc(IF op = "request_signature" THEN SignBodiesConc
                     ELSE NonceBodiesConc)

TaskPending(i, k) ==
  /\ i \in env.slots
  /\ k \in 1..Len(inv[i].request_tasks)
  /\ inv[i].request_tasks[k].result = Pending

\* one post_request coroutine finishes by returning a value
TaskReturns(i, k) ==
  /\ TaskPending(i, k)
  /\ \E net \in NetFor(inv[i].op) :
       /\ post_request(net).kind = "value"
       /\ inv' = [inv EXCEPT ![i].request_tasks[k].result = post_request(net)]
  /\ UNCHANGED <<self, uuid_count, env>>

\* mutant of GatherOnException: a child's exception is dropped at the await
GatherOnException_swallow(v, exc) == v

\* asyncio.gather(*request_tasks) without return_exceptions: the first
\* exception of a child is raised at the await, the other children run on
GatherOnException(v, exc) ==
  IF v.pc = "awaiting" THEN [v EXCEPT !.pc = "raised", !.exc = exc] ELSE v

\* one post_request coroutine finishes by raising
TaskRaises(i, k) ==
  /\ TaskPending(i, k)
  /\ \E net \in NetFor(inv[i].op) :
       /\ post_request(net).kind = "exception"
       /\ inv' = [inv EXCEPT ![i] =
                    GatherOnException(
                      [inv[i] EXCEPT !.request_tasks[k].result =
                                        post_request(net)],
                      post_request(net).exc)]
  /\ UNCHANGED <<self, uuid_count, env>>

\* gather's result is ready: every child has returned a value
GatherDone(v) ==
  /\ v.pc = "awaiting"
  /\ \A k \in 1..Len(v.request_tasks) : v.request_tasks[k].result.kind = "value"

\* mutant of Responses: the batch result is kept on the coordinator, so an
\* invocation reads what the first invocation's calls returned
Responses_shared(v) ==
  [k \in 1..Len(v.request_tasks) |->
     IF /\ k <= Len(inv[1].request_tasks)
        /\ inv[1].request_tasks[k].result.kind = "value"
     THEN inv[1].request_tasks[k].result.value
     ELSE v.request_tasks[k].result.value]

\* responses = await asyncio.gather(*request_tasks)
Responses(v) ==
  [k \in 1..Len(v.request_tasks) |-> v.request_tasks[k].result.value]

\* request_nonces after the await
NoncesCollected(i) ==
  /\ i \in env.slots
  /\ inv[i].op = "request_nonces"
  /\ GatherDone(inv[i])
  /\ inv' = [inv EXCEPT ![i].pc = "returned",
                        ![i].ret = dict_zip(inv[i].party, Responses(inv[i]))]
  /\ UNCHANGED <<self, uuid_count, env>>

\* ------------------------------------------- request_signature, extraction
get_hash(data) == IF "hash" \in DOMAIN data THEN data.hash ELSE NoneStr
has_signature_data(data) == "signature_data" \in DOMAIN data
get_nonce(data) ==
  IF has_signature_data(data)
  THEN data.signature_data.aggregated_public_nonce ELSE NoneStr

NoScratch ==
  [str_message |-> NoneStr, sample_result |-> <<>>, signs |-> <<>>,
   aggregated_public_nonces |-> <<>>]

\* mutant of ExtractOne: every hash seen replaces the digest and the sample
ExtractOne_overwrite(acc, data) ==
  LET a1 == IF Truthy(get_hash(data))
            THEN [acc EXCEPT !.str_message = get_hash(data),
                             !.sample_result = <<data>>]
            ELSE acc
      a2 == IF has_signature_data(data)
            THEN [a1 EXCEPT !.signs = Append(@, data.signature_data)]
            ELSE a1
  IN IF Truthy(get_nonce(data))
     THEN [a2 EXCEPT !.aggregated_public_nonces = Append(@, get_nonce(data))]
     ELSE a2

\* one turn of `for data in signatures.values()`
ExtractOne(acc, data) ==
  LET a1 == IF Truthy(get_hash(data)) /\ acc.str_message = NoneStr
            THEN [acc EXCEPT !.str_message = get_hash(data),
                             !.sample_result = Append(@, data)]
            ELSE acc
      a2 == IF has_signature_data(data)
            THEN [a1 EXCEPT !.signs = Append(@, data.signature_data)]
            ELSE a1
  IN IF Truthy(get_nonce(data))
     THEN [a2 EXCEPT !.aggregated_public_nonces = Append(@, get_nonce(data))]
     ELSE a2

RECURSIVE Extract(_, _)
Extract(values, acc) ==
  IF values = <<>> THEN acc
  ELSE Extract(Tail(values), ExtractOne(acc, Head(values)))

\* request_signature from the await to the end of the extraction loop
SharesCollected(i) ==
  /\ i \in env.slots
  /\ inv[i].op = "request_signature"
  /\ GatherDone(inv[i])
  /\ LET signatures == dict_zip(inv[i].party, Responses(inv[i]))
         x == Extract(DictValues(signatures), NoScratch)
     IN inv' = [inv EXCEPT ![i].pc = "collected",
                           ![i].signatures = signatures,
                           ![i].str_message = x.str_message,
                           ![i].sample_result = x.sample_result,
                           ![i].signs = x.signs,
                           ![i].aggregated_public_nonces =
                              x.aggregated_public_nonces]
  /\ UNCHANGED <<self, uuid_count, env>>

\* ------------------------------------- request_signature, consistency check
SeqToSet(q) == {q[n] : n \in 1..Len(q)}

\* mutant of NeedsRecompute: only disagreement triggers the recomputation
NeedsRecompute_many(aggregated_public_nonces) ==
  Cardinality(SeqToSet(aggregated_public_nonces)) > 1

\* `if not len(set(aggregated_public_nonces)) == 1`
NeedsRecompute(aggregated_public_nonces) ==
  Cardinality(SeqToSet(aggregated_public_nonces)) # 1

\* index of the first response without a 'signature_data' key, 0 if none
FirstKeyError(items) ==
  LET bad == {n \in 1..Len(items) : ~has_signature_data(items[n].value)}
  IN IF bad = {} THEN 0 ELSE CHOOSE n \in bad : \A m \in bad : n <= m

\* mutant of MarkMalicious: the comparison is inverted
MarkMalicious_eq(signatures, code) ==
  LET items == signatures.items
      bad == FirstKeyError(items)
      upto == IF bad = 0 THEN Len(items) ELSE bad - 1
  IN [raised |-> bad # 0,
      marked |-> \E n \in 1..upto :
         items[n].value.signature_data.aggregated_public_nonce = code,
      signatures |->
        [items |-> [n \in 1..Len(items) |->
           IF n <= upto
              /\ items[n].value.signature_data.aggregated_public_nonce = code
           THEN [items[n] EXCEPT !.value.status = "MALICIOUS"]
           ELSE items[n]]]]

\* the marking loop: every response up to the first KeyError is compared
\* with the recomputed code and marked in place if it differs
MarkMalicious(signatures, code) ==
  LET items == signatures.items
      bad == FirstKeyError(items)
      upto == IF bad = 0 THEN Len(items) ELSE bad - 1
  IN [raised |-> bad # 0,
      marked |-> \E n \in 1..upto :
         items[n].value.signature_data.aggregated_public_nonce # code,
      signatures |->
        [items |-> [n \in 1..Len(items) |->
           IF n <= upto
              /\ items[n].value.signature_data.aggregated_public_nonce # code
           THEN [items[n] EXCEPT !.value.status = "MALICIOUS"]
           ELSE items[n]]]]

\* mutant of AnyMalicious: only the first response is looked at
AnyMalicious_first(signatures) ==
  /\ signatures.items # <<>>
  /\ signatures.items[1].value.status = "MALICIOUS"

\* the second loop: `if data['status'] == 'MALICIOUS'`
AnyMalicious(signatures) ==
  \E n \in 1..Len(signatures.items) :
     signatures.items[n].value.status = "MALICIOUS"

\* mutant of Judge: the ceremony goes on to the aggregation in any case
Judge_lenient(v, signatures, marked, log) ==
  [v EXCEPT !.pc = "consistent", !.signatures = signatures, !.log = log]

\* the end of the check: FAILED with the shares, or on to the aggregation
Judge(v, signatures, marked, log) ==
  IF marked \/ AnyMalicious(signatures)
  THEN [v EXCEPT !.pc = "returned", !.signatures = signatures, !.log = log,
                 !.ret = [result |-> "FAILED", signatures |-> signatures]]
  ELSE [v EXCEPT !.pc = "consistent", !.signatures = signatures, !.log = log]

ConsistencyCheck(i) ==
  /\ i \in env.slots
  /\ inv[i].pc = "collected"
  /\ LET v == inv[i]
         log == Append(v.log, [fn |-> "aggregate_nonce",
                               message |-> v.str_message])
     IN IF NeedsRecompute(v.aggregated_public_nonces)
        THEN \E r \in aggregate_nonce(v.str_message, NoncesList,
                                     DkgKey.public_key) :
               IF r.kind = "exception"
               THEN inv' = [inv EXCEPT ![i] =
                              [v EXCEPT !.pc = "raised", !.exc = r.exc,
                                        !.log = log]]
               ELSE LET m == MarkMalicious(v.signatures, pub_to_code(r.value))
                    IN IF m.raised
                       THEN inv' = [inv EXCEPT ![i] =
                                      [v EXCEPT !.pc = "raised",
                                                !.exc = "KeyError",
                                                !.signatures = m.signatures,
                                                !.log = log]]
                       ELSE inv' = [inv EXCEPT ![i] =
                                      Judge(v, m.signatures, m.marked, log)]
        ELSE inv' = [inv EXCEPT ![i] = Judge(v, v.signatures, FALSE, v.log)]
  /\ UNCHANGED <<self, uuid_count, env>>

\* --------------------------------- request_signature, aggregation, verdict
Aggregate(i) ==
  /\ i \in env.slots
  /\ inv[i].pc = "consistent"
  /\ LET v == inv[i]
     IN IF v.aggregated_public_nonces = <<>>
        THEN inv' = [inv EXCEPT ![i].pc = "raised", ![i].exc = "IndexError"]
        ELSE LET nonce == code_to_pub(v.aggregated_public_nonces[1])
                 log == Append(v.log,
                          [fn |-> "aggregate_signatures",
                           message |-> v.str_message, shares |-> v.signs,
                           nonce |-> nonce])
             IN \E r \in aggregate_signatures(v.str_message, v.signs, nonce,
                                              DkgKey.public_key) :
                  IF r.kind = "exception"
                  THEN inv' = [inv EXCEPT ![i].pc = "raised",
                                          ![i].exc = r.exc, ![i].log = log]
                  ELSE inv' = [inv EXCEPT ![i].pc = "aggregated",
                                          ![i].aggregated_sign = r.value,
                                          ![i].log = log]
  /\ UNCHANGED <<self, uuid_count, env>>

\* the aggregate as returned when verification succeeds
Successful(aggregated_sign, sample_result, request_id) ==
  [message_hash |-> hex(aggregated_sign.message_hash),
   nonce |-> aggregated_sign.nonce, shares |-> aggregated_sign.shares,
   public_key |-> aggregated_sign.public_key,
   result |-> "SUCCESSFUL", signature_data |-> sample_result,
   request_id |-> request_id]

\* mutant of Failed: the shares' place is returned instead of the aggregate
Failed_bare(aggregated_sign) == [result |-> "FAILED", signatures |-> None]

\* the aggregate as returned when verification fails
Failed(aggregated_sign) ==
  [message_hash |-> aggregated_sign.message_hash,
   nonce |-> aggregated_sign.nonce, shares |-> aggregated_sign.shares,
   public_key |-> aggregated_sign.public_key, result |-> "FAILED"]

\* mutant of Verdict: the branches are swapped
Verdict_swapped(ok, v) ==
  IF ok THEN Failed(v.aggregated_sign)
  ELSE Successful(v.aggregated_sign, v.sample_result, v.request_id)

\* the two ends of `if pyfrost.frost.verify_group_signature(...)`
Verdict(ok, v) ==
  IF ok THEN Successful(v.aggregated_sign, v.sample_result, v.request_id)
  ELSE Failed(v.aggregated_sign)

Verify(i) ==
  /\ i \in env.slots
  /\ inv[i].pc = "aggregated"
  /\ \E ok \in verify_group_signature(inv[i].aggregated_sign) :
       inv' = [inv EXCEPT
                 ![i].pc = "returned",
                 ![i].ret = Verdict(ok, inv[i]),
                 ![i].log = Append(@, [fn |-> "verify_group_signature",
                                       ok |-> ok])]
  /\ UNCHANGED <<self, uuid_count, env>>

\* ---------------------------------------------------------- specification
Next ==
  \E i \in Invocations :
    \/ RequestNonces(i)
    \/ RequestSignature(i)
    \/ \E k \in 1..MaxParty + 1 : TaskReturns(i, k)
    \/ \E k \in 1..MaxParty + 1 : TaskRaises(i, k)
    \/ NoncesCollected(i)
    \/ SharesCollected(i)
    \/ ConsistencyCheck(i)
    \/ Aggregate(i)
    \/ Verify(i)

\* one invocation on the coordinator
Spec == Init /\ [][Next]_vars

\* two invocations interleaved on the coordinator
SpecConc == InitConc /\ [][Next]_vars

\* what happens to a started invocation without its caller: one of its
\* peer calls completes, by returning or by raising, or its coroutine resumes
Progress(i) ==
  \/ \E k \in 1..MaxParty + 1 : TaskReturns(i, k) \/ TaskRaises(i, k)
  \/ NoncesCollected(i) \/ SharesCollected(i)
  \/ ConsistencyCheck(i) \/ Aggregate(i) \/ Verify(i)

\* the event loop runs a coroutine that is ready, and a pending peer call
\* eventually completes
Fairness == \A i \in Invocations : WF_vars(Progress(i))

\* one invocation on the coordinator, under a fair event loop
SpecLive == InitLive /\ [][Next]_vars /\ Fairness

\* ===================================================================
\* Properties
\* ===================================================================
\* the positions of the calls of fn in an invocation's log
Calls(v, fn) == {n \in 1..Len(v.log) : v.log[n].fn = fn}

\* the responses as they arrived, before the coordinator marks any
Incoming(v) == dict_zip(v.party, Responses(v))

\* the invocation is a request_signature that is past its batch wait
Collected(v) ==
  /\ v.op = "request_signature"
  /\ v.signatures # None

\* C1: a request_signature whose sign_party is not a subset of
\* dkg_key['party'] has returned {result: FAILED, signatures: None} and has
\* made no directory lookup and no post_request call.
C1_GuardFailsFast ==
  \A i \in Invocations :
    (/\ inv[i].op = "request_signature"
     /\ \E k \in 1..Len(inv[i].party) : inv[i].party[k] \notin DkgKey.party)
    => /\ inv[i].pc = "returned"
       /\ inv[i].ret = [result |-> "FAILED", signatures |-> None]
       /\ inv[i].request_tasks = <<>>
       /\ Calls(inv[i], "post_request") = {}
       /\ Calls(inv[i], "lookup_node") = {}

C1_Witness ==
  \E i \in Invocations :
    /\ inv[i].op = "request_signature"
    /\ Len(inv[i].party) >= 2
    /\ inv[i].party[1] \in DkgKey.party
    /\ inv[i].party[2] \notin DkgKey.party
    /\ inv[i].pc = "returned"

\* C2 (as claimed): a request_signature that passed the guard and whose
\* peer calls all returned shares or sentinels never ends by raising, and
\* what it returns has result SUCCESSFUL or FAILED.
C2_NeverRaises ==
  \A i \in Invocations :
    (/\ inv[i].op = "request_signature"
     /\ \A k \in 1..Len(inv[i].party) : inv[i].party[k] \in DkgKey.party
     /\ Len(inv[i].request_tasks) = Len(inv[i].party)
     /\ \A k \in 1..Len(inv[i].request_tasks) :
          inv[i].request_tasks[k].result.kind # "exception")
    => /\ inv[i].pc # "raised"
       /\ inv[i].pc = "returned"
            => inv[i].ret.result \in {"SUCCESSFUL", "FAILED"}

\* C3 (as claimed): post_request never raises to its caller; every
\* finished call holds a value.
C3_PostRequestNeverRaises ==
  \A i \in Invocations :
    \A k \in 1..Len(inv[i].request_tasks) :
      inv[i].request_tasks[k].result.kind \in {"pending", "value"}

\* member f is the one forger: every member answered with a share, all but
\* f report the recomputed nonce with a normal status, f reports another
OneForger(v, f) ==
  LET items == Incoming(v).items
      code == NonceCodeFor(v.str_message)
  IN /\ Len(items) >= 2
     /\ f \in 1..Len(items)
     /\ Truthy(v.str_message)
     /\ \A n \in 1..Len(items) :
          /\ has_signature_data(items[n].value)
          /\ n # f => /\ get_nonce(items[n].value) = code
                      /\ items[n].value.status = "SUCCESSFUL"
          /\ n = f => /\ Truthy(get_nonce(items[n].value))
                      /\ get_nonce(items[n].value) # code

\* C4: when exactly one member reports an aggregated_public_nonce that
\* differs from the recomputed value all the others report, the ceremony
\* returns FAILED and exactly that member's response is MALICIOUS.
C4_OnlyForgerFlagged ==
  \A i \in Invocations :
    \A f \in 1..Len(inv[i].party) :
      (/\ Collected(inv[i])
       /\ inv[i].pc # "collected"
       /\ OneForger(inv[i], f))
      => /\ inv[i].pc = "returned"
         /\ inv[i].ret = [result |-> "FAILED",
                          signatures |-> inv[i].signatures]
         /\ \A n \in 1..Len(inv[i].signatures.items) :
              (inv[i].signatures.items[n].value.status = "MALICIOUS")
                <=> (n = f)

C4_Witness ==
  \E i \in Invocations :
    /\ Collected(inv[i])
    /\ inv[i].pc = "returned"
    /\ OneForger(inv[i], 2)
    /\ inv[i].signatures.items[2].value.status = "MALICIOUS"

\* every member answered with a share of normal status and all report one
\* and the same aggregated_public_nonce
AllAgree(v) ==
  LET items == Incoming(v).items
  IN /\ Len(items) >= 1
     /\ \A n \in 1..Len(items) :
          /\ has_signature_data(items[n].value)
          /\ items[n].value.status = "SUCCESSFUL"
          /\ Truthy(get_nonce(items[n].value))
          /\ get_nonce(items[n].value) = get_nonce(items[1].value)

VerifyAccepted(v) ==
  \E n \in Calls(v, "verify_group_signature") : v.log[n].ok

\* C5: when all members return shares of normal status reporting one
\* aggregated_public_nonce, the ceremony does not end in the consistency
\* check, and when verify_group_signature accepts the aggregate the result
\* is SUCCESSFUL and the returned object is that aggregate.
C5_AgreeingSharesSucceed ==
  \A i \in Invocations :
    (Collected(inv[i]) /\ inv[i].pc = "returned" /\ AllAgree(inv[i]))
    => /\ "signatures" \notin DOMAIN inv[i].ret
       /\ Calls(inv[i], "verify_group_signature") # {}
       /\ VerifyAccepted(inv[i])
            => /\ inv[i].ret.result = "SUCCESSFUL"
               /\ inv[i].ret.nonce = inv[i].aggregated_sign.nonce
               /\ inv[i].ret.shares = inv[i].aggregated_sign.shares
               /\ inv[i].ret.public_key = inv[i].aggregated_sign.public_key
               /\ inv[i].ret.message_hash
                    = hex(inv[i].aggregated_sign.message_hash)

C5_Witness ==
  \E i \in Invocations :
    /\ Collected(inv[i])
    /\ inv[i].pc = "returned"
    /\ AllAgree(inv[i])
    /\ Len(Incoming(inv[i]).items) >= 2
    /\ VerifyAccepted(inv[i])

\* C6 (as claimed): a peer call that exceeds the timeout leaves the TIMEOUT
\* sentinel in its own slot; it never ends as an exception and never aborts
\* the batch of its invocation.
C6_TimeoutStaysInItsSlot ==
  \A i \in Invocations :
    /\ inv[i].exc # "TimeoutError"
    /\ \A k \in 1..Len(inv[i].request_tasks) :
         inv[i].request_tasks[k].result # Raised("TimeoutError")

\* C7 (as claimed): the coordinator is past its batch wait only when every
\* peer call of the batch has completed.
C7_JoinAll ==
  \A i \in Invocations :
    inv[i].pc \notin {"idle", "awaiting"}
    => \A k \in 1..Len(inv[i].request_tasks) :
         inv[i].request_tasks[k].result # Pending

\* the position of the first occurrence of id in the list P
FirstIndex(P, id) ==
  CHOOSE k \in 1..Len(P) : P[k] = id /\ \A j \in 1..(k - 1) : P[j] # id

\* C8: the mapping request_nonces returns has exactly one entry per id of
\* the party, the keys in the order of the ids' first occurrence in the
\* party, each mapped to the response of a call issued for that id.
C8_OneEntryPerId ==
  \A i \in Invocations :
    (inv[i].op = "request_nonces" /\ inv[i].pc = "returned")
    => LET P == inv[i].party
           items == inv[i].ret.items
       IN /\ {items[n].key : n \in 1..Len(items)} = SeqToSet(P)
          /\ \A a, b \in 1..Len(items) :
               a < b => /\ items[a].key # items[b].key
                        /\ FirstIndex(P, items[a].key)
                             < FirstIndex(P, items[b].key)
          /\ \A n \in 1..Len(items) :
               \E k \in 1..Len(P) :
                 /\ P[k] = items[n].key
                 /\ items[n].value = Responses(inv[i])[k]

C8_Witness ==
  \E i \in Invocations :
    /\ inv[i].op = "request_nonces"
    /\ inv[i].pc = "returned"
    /\ Len(inv[i].party) >= 2
    /\ inv[i].party[1] = inv[i].party[2]
    /\ Responses(inv[i])[1] # Responses(inv[i])[2]

\* C9: two invocations of request_signature that pass the guard hold
\* different request ids; an invocation's id is the one in the payload of
\* each of its calls and the one on its SUCCESSFUL result.
C9_RequestIds ==
  /\ \A i, j \in Invocations :
       (i # j /\ inv[i].request_id # 0 /\ inv[j].request_id # 0)
       => inv[i].request_id # inv[j].request_id
  /\ \A i \in Invocations :
       inv[i].op = "request_signature"
       => /\ (\A k \in 1..Len(inv[i].party) :
                inv[i].party[k] \in DkgKey.party)
               => /\ Calls(inv[i], "uuid4") # {}
                  /\ \A n \in Calls(inv[i], "uuid4") :
                       inv[i].log[n].value = inv[i].request_id
          /\ \A k \in 1..Len(inv[i].request_tasks) :
               inv[i].request_tasks[k].data.request_id = inv[i].request_id
          /\ (inv[i].pc = "returned" /\ inv[i].ret.result = "SUCCESSFUL")
               => inv[i].ret.request_id = inv[i].request_id

C9_Witness ==
  /\ inv[1].op = "request_signature"
  /\ inv[1].pc = "awaiting"
  /\ inv[1].request_tasks # <<>>
  /\ inv[2].op = "request_signature"
  /\ inv[2].pc = "returned"
  /\ inv[2].ret.result = "SUCCESSFUL"
  /\ inv[2].request_id < inv[1].request_id

\* C10: once a response is MALICIOUS, aggregate_signatures and
\* verify_group_signature are not invoked, the ceremony does not go on to
\* the aggregation, and what it returns is {result: FAILED, signatures:
\* the mapping of the responses keyed by sign_party}.
C10_MaliciousMeansFailed ==
  \A i \in Invocations :
    (/\ Collected(inv[i])
     /\ \E n \in 1..Len(inv[i].signatures.items) :
          inv[i].signatures.items[n].value.status = "MALICIOUS")
    => /\ Calls(inv[i], "aggregate_signatures") = {}
       /\ Calls(inv[i], "verify_group_signature") = {}
       /\ inv[i].pc \in {"collected", "returned", "raised"}
       /\ inv[i].pc = "returned"
            => /\ inv[i].ret = [result |-> "FAILED",
                                signatures |-> inv[i].signatures]
               /\ SeqToSet(DictKeys(inv[i].signatures))
                    = SeqToSet(inv[i].party)

C10_Witness ==
  \E i \in Invocations :
    /\ Collected(inv[i])
    /\ inv[i].pc = "returned"
    /\ Len(inv[i].signatures.items) >= 2
    /\ Incoming(inv[i]).items[2].value.status = "MALICIOUS"
    /\ Calls(inv[i], "aggregate_nonce") = {}

\* the state of the ceremony's state machine an invocation is in
StateOf(v) ==
  CASE v.pc = "idle" -> "INIT"
    [] v.pc = "awaiting" -> "AWAITING_SHARES"
    [] v.pc = "collected" -> "SHARES_COLLECTED"
    [] v.pc = "consistent" -> "CONSISTENT"
    [] v.pc = "aggregated" -> "AGGREGATED"
    [] v.pc = "raised" ->
         IF v.exc = "LookupError" THEN "LOOKUP_FAILED" ELSE "RAISED"
    [] v.pc = "returned" ->
         IF "signatures" \in DOMAIN v.ret
         THEN IF v.ret.signatures = None THEN "GUARD_FAILED"
              ELSE "CONSISTENCY_FAILED"
         ELSE IF v.ret.result = "SUCCESSFUL" THEN "VERIFIED"
              ELSE "VERIFICATION_FAILED"

\* the transitions of the stated machine (PARTY_VALIDATED is passed inside
\* the step that starts the batch; an unknown id ends in the directory's
\* own error)
MachineEdges ==
  {<<"INIT", "AWAITING_SHARES">>, <<"INIT", "GUARD_FAILED">>,
   <<"INIT", "LOOKUP_FAILED">>,
   <<"AWAITING_SHARES", "SHARES_COLLECTED">>,
   <<"SHARES_COLLECTED", "CONSISTENCY_FAILED">>,
   <<"SHARES_COLLECTED", "CONSISTENT">>,
   <<"CONSISTENT", "AGGREGATED">>,
   <<"AGGREGATED", "VERIFIED">>, <<"AGGREGATED", "VERIFICATION_FAILED">>}

\* C11 (as claimed): a request_signature moves only along the stated
\* machine, so it is VERIFIED only after guard, full batch, clean
\* consistency check, aggregate_signatures and an accepting
\* verify_group_signature, in this order, and it ends only in
\* CONSISTENCY_FAILED, VERIFIED, VERIFICATION_FAILED or the guard's FAILED.
C11_StateMachine ==
  [][\A i \in Invocations :
       inv'[i].op = "request_signature"
       => \/ StateOf(inv'[i]) = StateOf(inv[i])
          \/ <<StateOf(inv[i]), StateOf(inv'[i])>> \in MachineEdges]_vars

VerifyRejected(v) ==
  \E n \in Calls(v, "verify_group_signature") : ~v.log[n].ok

\* C12: when verify_group_signature returns false, what request_signature
\* returns is the produced aggregate with result FAILED added (not the
\* per-peer shares), and never SUCCESSFUL.
C12_RejectedAggregateRetained ==
  \A i \in Invocations :
    VerifyRejected(inv[i])
    => /\ inv[i].pc = "returned"
       /\ inv[i].ret.result = "FAILED"
       /\ "signatures" \notin DOMAIN inv[i].ret
       /\ DOMAIN inv[i].ret = DOMAIN inv[i].aggregated_sign \cup {"result"}
       /\ \A field \in DOMAIN inv[i].aggregated_sign :
            inv[i].ret[field] = inv[i].aggregated_sign[field]

C12_Witness ==
  \E i \in Invocations :
    /\ VerifyRejected(inv[i])
    /\ inv[i].pc = "returned"
    /\ Len(inv[i].aggregated_sign.shares) >= 2

\* what an invocation's own peer calls returned
OwnResponses(v) ==
  [k \in 1..Len(v.request_tasks) |-> v.request_tasks[k].result.value]

\* the verdicts a ceremony run alone can end in, from its extraction x
SoloVerdicts(x, request_id) ==
  IF x.aggregated_public_nonces = <<>> THEN {}
  ELSE UNION
    {IF r.kind = "exception" THEN {}
     ELSE {Verdict(ok, [aggregated_sign |-> r.value,
                        sample_result |-> x.sample_result,
                        request_id |-> request_id]) : ok \in BOOLEAN} :
     r \in aggregate_signatures(x.str_message, x.signs,
             code_to_pub(x.aggregated_public_nonces[1]), DkgKey.public_key)}

SoloJudged(signatures, marked, x, request_id) ==
  IF marked \/ AnyMalicious(signatures)
  THEN {[result |-> "FAILED", signatures |-> signatures]}
  ELSE SoloVerdicts(x, request_id)

\* the values request_signature can return when it runs alone on the
\* coordinator with this sign_party (past the guard), these responses and
\* this request id
SoloResults(sign_party, responses, request_id) ==
  LET signatures == dict_zip(sign_party, responses)
      x == Extract(DictValues(signatures), NoScratch)
  IN IF NeedsRecompute(x.aggregated_public_nonces)
     THEN UNION
       {IF r.kind = "exception" THEN {}
        ELSE LET m == MarkMalicious(signatures, pub_to_code(r.value))
             IN IF m.raised THEN {}
                ELSE SoloJudged(m.signatures, m.marked, x, request_id) :
        r \in aggregate_nonce(x.str_message, NoncesList, DkgKey.public_key)}
     ELSE SoloJudged(signatures, FALSE, x, request_id)

\* C13: no invocation changes the coordinator's fields, and what an
\* invocation returns while another runs on the same coordinator is what it
\* returns alone with the same arguments and the same peer responses.
C13_NoSharedCeremonyState ==
  /\ self = InitSelf
  /\ \A i \in Invocations :
       inv[i].pc = "returned"
       => IF inv[i].op = "request_nonces"
          THEN inv[i].ret = dict_zip(inv[i].party, OwnResponses(inv[i]))
          ELSE IF \E k \in 1..Len(inv[i].party) :
                    inv[i].party[k] \notin DkgKey.party
          THEN inv[i].ret = [result |-> "FAILED", signatures |-> None]
          ELSE inv[i].ret \in SoloResults(inv[i].party, OwnResponses(inv[i]),
                                         inv[i].request_id)

\* the second invocation started first, got another answer than the first
\* and is still in its ceremony when the first has returned
C13_Witness ==
  /\ inv[1].op = "request_signature"
  /\ inv[1].pc = "returned"
  /\ inv[1].ret.result = "SUCCESSFUL"
  /\ inv[2].op = "request_signature"
  /\ inv[2].pc = "consistent"
  /\ inv[2].request_id < inv[1].request_id
  /\ inv[2].aggregated_public_nonces # inv[1].aggregated_public_nonces

\* C14 (as claimed): aggregate_nonce and aggregate_signatures are never
\* invoked with an undefined canonical digest.
C14_DigestDefined ==
  \A i \in Invocations :
    \A n \in Calls(inv[i], "aggregate_nonce")
             \cup Calls(inv[i], "aggregate_signatures") :
      Truthy(inv[i].log[n].message)

\* the calls of an invocation that went to the address of node id
CallsTo(v, id) ==
  {k \in 1..Len(v.request_tasks) :
     /\ v.request_tasks[k].url.host = Directory[id].host
     /\ v.request_tasks[k].url.port = Directory[id].port}

\* C15 (as claimed): a ceremony past the guard has issued exactly one
\* /v1/sign call to each member of sign_party, never a second one to the
\* same member, all with the one payload {request_id, dkg_public_key,
\* nonces_list, data} and the default timeout.
C15_OneCallPerMember ==
  \A i \in Invocations :
    (inv[i].op = "request_signature"
     /\ inv[i].pc \notin {"idle"}
     /\ Calls(inv[i], "post_request") # {})
    => /\ \A id \in SeqToSet(inv[i].party) :
            Cardinality(CallsTo(inv[i], id)) = 1
       /\ \A k \in 1..Len(inv[i].request_tasks) :
            /\ inv[i].request_tasks[k].url.path = "/v1/sign"
            /\ inv[i].request_tasks[k].timeout = DefaultTimeout
            /\ inv[i].request_tasks[k].data =
                 [request_id |-> inv[i].request_id,
                  dkg_public_key |-> DkgKey.public_key,
                  nonces_list |-> NoncesList, data |-> SaData]

\* position of the first response with a non-empty hash, 0 if there is none
FirstWithHash(values) ==
  LET has == {n \in 1..Len(values) :
                /\ "hash" \in DOMAIN values[n]
                /\ values[n].hash # ""}
  IN IF has = {} THEN 0 ELSE CHOOSE n \in has : \A m \in has : n <= m

\* C16: once the batch is collected, the digest is the hash of the first
\* response (in the order of the collected mapping, which follows
\* sign_party) that has a non-empty hash, whatever later responses report;
\* every crypto call is given that digest, and the sample attached to a
\* SUCCESSFUL result is that one response, or empty if no response has a
\* hash.
C16_FirstHashIsCanonical ==
  \A i \in Invocations :
    Collected(inv[i])
    => LET values == DictValues(Incoming(inv[i]))
           first == FirstWithHash(values)
           digest == IF first = 0 THEN NoneStr ELSE values[first].hash
       IN /\ inv[i].str_message = digest
          /\ \A n \in Calls(inv[i], "aggregate_nonce")
                      \cup Calls(inv[i], "aggregate_signatures") :
               inv[i].log[n].message = digest
          /\ (inv[i].pc = "returned" /\ inv[i].ret.result = "SUCCESSFUL")
             => /\ Len(inv[i].ret.signature_data) <= 1
                /\ inv[i].ret.signature_data
                     = IF first = 0 THEN <<>> ELSE <<values[first]>>

\* a SUCCESSFUL ceremony whose second member reported another hash
C16_Witness ==
  \E i \in Invocations :
    /\ Collected(inv[i])
    /\ inv[i].pc = "returned"
    /\ inv[i].ret.result = "SUCCESSFUL"
    /\ LET values == DictValues(Incoming(inv[i]))
       IN /\ Len(values) = 2
          /\ "hash" \in DOMAIN values[1]
          /\ "hash" \in DOMAIN values[2]
          /\ values[1].hash = "h1"
          /\ values[2].hash = "h2"
          /\ inv[i].ret.signature_data = <<values[1]>>

Terminal(v) == v.pc \in {"returned", "raised"}

BatchComplete(v) ==
  \A k \in 1..Len(v.request_tasks) : v.request_tasks[k].result # Pending

\* C17: when every peer call eventually completes, an invocation that has
\* started eventually ends, by returning or by raising; in particular it
\* does not stay at its batch wait once its calls are complete.
C17_Terminates ==
  \A i \in Invocations : (inv[i].pc # "idle") ~> Terminal(inv[i])

\* an invocation has ended after a batch of two calls completed
C17_Witness ==
  \E i \in Invocations :
    /\ Terminal(inv[i])
    /\ Len(inv[i].request_tasks) = 2
    /\ BatchComplete(inv[i])

\* the non-empty aggregated_public_nonce values of the collected responses
Reported(v) ==
  LET values == DictValues(Incoming(v))
  IN {values[n].signature_data.aggregated_public_nonce :
        n \in {m \in 1..Len(values) :
                 /\ "signature_data" \in DOMAIN values[m]
                 /\ values[m].signature_data.aggregated_public_nonce # ""}}

\* C18: aggregate_nonce is not called before the consistency check, and
\* after it aggregate_nonce has been called (once) exactly when the reported
\* non-empty aggregated_public_nonce values are not one single value; when
\* they are one value no response's status has been changed, whatever
\* aggregate_nonce would have computed.
C18_RecomputeIffNotUnanimous ==
  \A i \in Invocations :
    Collected(inv[i])
    => LET called == Calls(inv[i], "aggregate_nonce")
       IN IF inv[i].pc = "collected"
          THEN called = {}
          ELSE /\ Cardinality(called) <= 1
               /\ called # {} <=> Cardinality(Reported(inv[i])) # 1
               /\ Cardinality(Reported(inv[i])) = 1
                    => inv[i].signatures = Incoming(inv[i])

\* two members agree on a value that is not the one aggregate_nonce computes
\* for the digest, and the ceremony ends SUCCESSFUL without a recomputation
C18_Witness ==
  \E i \in Invocations :
    /\ Collected(inv[i])
    /\ inv[i].pc = "returned"
    /\ inv[i].ret.result = "SUCCESSFUL"
    /\ Len(inv[i].signatures.items) = 2
    /\ Truthy(inv[i].str_message)
    /\ Reported(inv[i]) = {"n2"}
    /\ NonceCodeFor(inv[i].str_message) # "n2"
    /\ Calls(inv[i], "aggregate_nonce") = {}

\* the signature_data entries of the collected responses, in their order
SharesOf(values) ==
  LET HasShare(d) == "signature_data" \in DOMAIN d
      with == SelectSeq(values, HasShare)
  IN [n \in 1..Len(with) |-> with[n].signature_data]

\* C19: every call of aggregate_signatures is made when the reported
\* non-empty aggregated_public_nonce values are exactly one value; the nonce
\* passed is that value (decoded), and the shares passed are the
\* signature_data entries of the collected responses in the order of the
\* mapping, which follows sign_party; sentinels contribute none.
C19_AggregateInputs ==
  \A i \in Invocations :
    \A n \in Calls(inv[i], "aggregate_signatures") :
      /\ Cardinality(Reported(inv[i])) = 1
      /\ \A code \in Reported(inv[i]) :
           inv[i].log[n].nonce = code_to_pub(code)
      /\ inv[i].log[n].shares = SharesOf(DictValues(Incoming(inv[i])))

\* aggregate_signatures was called after one member answered with a share
\* and another with a sentinel
C19_Witness ==
  \E i \in Invocations :
    /\ Calls(inv[i], "aggregate_signatures") # {}
    /\ Len(Incoming(inv[i]).items) = 2
    /\ Len(SharesOf(DictValues(Incoming(inv[i])))) = 1

\* the invocation has started and, for request_signature, passed the guard
PastGuard(v) ==
  /\ v.op # "none"
  /\ v.op = "request_signature" => SeqToSet(v.party) \subseteq DkgKey.party

\* the lookup_node entries of a log, in their order
Lookups(v) ==
  LET IsLookup(e) == e.fn = "lookup_node"
      found == SelectSeq(v.log, IsLookup)
  IN [n \in 1..Len(found) |-> found[n].node_id]

Unknown(v) == {k \in 1..Len(v.party) : v.party[k] \notin DOMAIN Directory}

\* C20: in request_nonces and request_signature every lookup_node of the
\* invocation comes before its first post_request, and the lookups follow
\* the listed members in order; when all ids are known there is one lookup
\* per listed member, and when an id is unknown the lookups stop at the
\* first unknown one, the invocation has ended with the lookup's error and
\* no post_request has been issued.
C20_LookupsBeforeCalls ==
  \A i \in Invocations :
    PastGuard(inv[i])
    => /\ \A n \in Calls(inv[i], "lookup_node") :
            \A m \in Calls(inv[i], "post_request") : n < m
       /\ IF Unknown(inv[i]) = {}
          THEN /\ Lookups(inv[i]) = inv[i].party
               /\ Cardinality(Calls(inv[i], "post_request"))
                    = Len(inv[i].party)
          ELSE /\ \E k \in Unknown(inv[i]) :
                    /\ \A j \in Unknown(inv[i]) : k <= j
                    /\ Lookups(inv[i]) = SubSeq(inv[i].party, 1, k)
               /\ inv[i].pc = "raised"
               /\ inv[i].exc = "LookupError"
               /\ Calls(inv[i], "post_request") = {}
               /\ inv[i].request_tasks = <<>>

\* the second listed member is unknown to the directory
C20_Witness ==
  \E i \in Invocations :
    /\ PastGuard(inv[i])
    /\ Len(inv[i].party) = 2
    /\ Unknown(inv[i]) = {2}
    /\ inv[i].exc = "LookupError"
    /\ Cardinality(Calls(inv[i], "lookup_node")) = 2

====
